---- MODULE Spec2Model ----
(***************************************************************************)
(* Model of the stock reconciliation engine of sync_logic.py               *)
(* (physical store stock <-> Shopify export).                              *)
(*                                                                         *)
(* Text is kept as TLA+ strings and handled character by character with    *)
(* Len, SubSeq and \o, so that strip(), split(), the SKU pattern, the      *)
(* name normalisation and str() are computed as the code computes them.    *)
(* Tables (DataFrames) are sequences of records, one record per row, the   *)
(* row label being the position (RangeIndex, 0-based in the code, 1-based  *)
(* here).                                                                  *)
(***************************************************************************)
EXTENDS Integers, Sequences, FiniteSets, TLC

VARIABLES
    physical_df,      \* sync_stocks: the physical records (enriched by detect_carry_over)
    shopify_df,       \* sync_stocks: the platform table passed in
    carry_over_map,   \* detect_carry_over: <<norm_name, product_id>> -> "S<n>"
    updated,          \* sync_stocks: the copy of the platform table being rewritten
    matched,          \* sync_stocks: list of matched barcodes
    qty_changes,      \* sync_stocks: list of quantity-change entries
    set_to_zero,      \* sync_stocks: list of set-to-zero entries
    carry_over_upd,   \* sync_stocks: list of rename entries
    not_in_shop,      \* sync_stocks: list of new-product candidates
    idx,              \* position of the loop of sync_stocks (row) / parse_physical_stock (part)
    pc,               \* position in the run
    run,              \* 1: first reconciliation, 2: reconciliation of its own output
    first_in,         \* the platform table of the first run (kept for reference)
    table_in,         \* filter_zero_stock_products: the table passed in (df)
    mask,             \* filter_zero_stock_products: the rows to keep (mask)
    table_out,        \* filter_zero_stock_products: the table returned
    new_df,           \* generate_new_products: the table returned
    chunks,           \* parse_physical_stock: the parts of the dump still to parse
    brands,           \* build_vendor_list: the brand map returned
    name_in,          \* the text passed to extract_sku_and_title / extract_vendor_and_name
    extracted,        \* the pair returned by extract_sku_and_title / extract_vendor_and_name
    shopify_csv,      \* run_sync: shopify_csv_bytes
    new_products_csv, \* run_sync: new_products_bytes
    combined_csv,     \* run_sync: combined_bytes
    result,           \* the dict returned by run_sync
    response          \* the HTTP response of the /sync route

vars == <<physical_df, shopify_df, carry_over_map, updated, matched, qty_changes,
          set_to_zero, carry_over_upd, not_in_shop, idx, pc, run, first_in,
          table_in, mask, table_out, new_df, chunks, brands, name_in, extracted,
          shopify_csv, new_products_csv, combined_csv, result, response>>

\* the variables of the parsing, brand-map and export steps
other_vars == <<chunks, brands, name_in, extracted,
                shopify_csv, new_products_csv, combined_csv, result, response>>

-----------------------------------------------------------------------------
(* Bounds of the model.                                                    *)

MaxPhys == 2        \* physical records per file
MaxRows == 2        \* platform rows per export

-----------------------------------------------------------------------------
(* Characters and strings.                                                 *)

Ch(s, i) == SubSeq(s, i, i)

Min(S) == CHOOSE x \in S : \A y \in S : x <= y
Max(S) == CHOOSE x \in S : \A y \in S : x >= y

SeqToSet(q) == {q[i] : i \in 1..Len(q)}

\* str.isspace for the characters of the model
IsSpace(c) == c \in {" ", "\t", "\n", "\r"}

\* str.strip()
Strip(s) ==
    LET keep == {i \in 1..Len(s) : ~IsSpace(Ch(s, i))}
    IN  IF keep = {} THEN "" ELSE SubSeq(s, Min(keep), Max(keep))

\* `sub in s` for a non-empty sub
Contains(s, sub) ==
    \E i \in 1..(Len(s) - Len(sub) + 1) : SubSeq(s, i, i + Len(sub) - 1) = sub

EndsWith(s, suf) ==
    Len(s) >= Len(suf) /\ SubSeq(s, Len(s) - Len(suf) + 1, Len(s)) = suf

UpperLetters == {"A","B","C","D","E","F","G","H","I","J","K","L","M",
                 "N","O","P","Q","R","S","T","U","V","W","X","Y","Z"}
LowerLetters == {"a","b","c","d","e","f","g","h","i","j","k","l","m",
                 "n","o","p","q","r","s","t","u","v","w","x","y","z"}
Digits == {"0","1","2","3","4","5","6","7","8","9"}

\* the cased characters of the model, upper case and lower case in the same places
UpperSeq == "ABCDEFGHIJKLMNOPQRSTUVWXYZÉÀ"
LowerSeq == "abcdefghijklmnopqrstuvwxyzéà"

PosIn(c, alphabet) == CHOOSE i \in 1..Len(alphabet) : Ch(alphabet, i) = c

\* one character of str.lower() / str.upper()
IsUpperCh(c) == \E i \in 1..Len(UpperSeq) : Ch(UpperSeq, i) = c
IsLowerCh(c) == \E i \in 1..Len(LowerSeq) : Ch(LowerSeq, i) = c
LowerCh(c) == IF IsUpperCh(c) THEN Ch(LowerSeq, PosIn(c, UpperSeq)) ELSE c
UpperCh(c) == IF IsLowerCh(c) THEN Ch(UpperSeq, PosIn(c, LowerSeq)) ELSE c

RECURSIVE LowerFrom(_, _)
\* str.lower() of s from position i on
LowerFrom(s, i) == IF i > Len(s) THEN "" ELSE LowerCh(Ch(s, i)) \o LowerFrom(s, i + 1)

RECURSIVE UpperFrom(_, _)
\* str.upper() of s from position i on
UpperFrom(s, i) == IF i > Len(s) THEN "" ELSE UpperCh(Ch(s, i)) \o UpperFrom(s, i + 1)

Lower(s) == LowerFrom(s, 1)
Upper(s) == UpperFrom(s, 1)

DigitVal(c) == PosIn(c, "0123456789") - 1

RECURSIVE DecVal(_)
\* the number a string of decimal digits writes ("" writes 0)
DecVal(ds) ==
    IF ds = "" THEN 0 ELSE 10 * DecVal(SubSeq(ds, 1, Len(ds) - 1)) + DigitVal(Ch(ds, Len(ds)))

\* str(n) for an integer n
IntStr(n) == ToString(n)

\* code-point order of the characters of the model (str comparison, sorted())
AsciiSeq == "\t \"'+-./0123456789ABCDEFGHIJKLMNOPQRSTUVWXYZabcdefghijklmnopqrstuvwxyzÀÉàé"
Ord(c) == PosIn(c, AsciiSeq)

RECURSIVE StrLess(_, _)
\* a < b for two str values (lexicographic, by code point)
StrLess(a, b) ==
    IF b = "" THEN FALSE
    ELSE IF a = "" THEN TRUE
    ELSE IF Ch(a, 1) = Ch(b, 1) THEN StrLess(SubSeq(a, 2, Len(a)), SubSeq(b, 2, Len(b)))
    ELSE Ord(Ch(a, 1)) < Ord(Ch(b, 1))

\* a variant of SortedPlace: the ids are ordered as numbers
SortedPlaceNumeric(x, S) == Cardinality({y \in S : DecVal(y) < DecVal(x)}) + 1

\* sorted(S)[i-1] for a set S of distinct strings: its place i (1-based) in ascending order
SortedPlace(x, S) == Cardinality({y \in S : StrLess(y, x)}) + 1

-----------------------------------------------------------------------------
(* PARTIE 2 - the catalogue name.                                          *)

_SIZES == {"XS", "S", "M", "L", "XL", "XXL", "XXXL", "SIZE", "TAILLE"}

\* a variant of SkuFirstChars: the token may start with a dot or a hyphen
SkuFirstCharsAny == UpperLetters \cup Digits \cup {".", "-"}

\* [A-Z0-9] and [A-Z0-9.\-] of _SKU_PATTERN
SkuFirstChars == UpperLetters \cup Digits
SkuChars      == UpperLetters \cup Digits \cup {".", "-"}

\* _SKU_PATTERN.search(name) on a stripped name: \s+([A-Z0-9][A-Z0-9.\-]{3,})$
\* The group holds no whitespace and runs to the end, so it is the text after the
\* last whitespace character; the match starts where the whitespace run before it
\* starts.  [found, start (first character of the match), token]
SkuSearch(name) ==
    LET n     == Len(name)
        ws    == {i \in 1..n : IsSpace(Ch(name, i))}
        t     == IF ws = {} THEN 1 ELSE Max(ws) + 1
        token == SubSeq(name, t, n)
        ok    == /\ ws # {}
                 /\ Len(token) >= 4
                 /\ Ch(token, 1) \in SkuFirstChars
                 /\ \A i \in 1..Len(token) : Ch(token, i) \in SkuChars
        start == Min({i \in 1..n : \A j \in i..(t - 1) : IsSpace(Ch(name, j))})
    IN  [found |-> ok, start |-> IF ok THEN start ELSE 0, token |-> IF ok THEN token ELSE ""]

\* extract_sku_and_title: [title, sku, has_sku]; has_sku = FALSE stands for sku None
extract_sku_and_title(catalog_name) ==
    LET name == Strip(catalog_name)
        m    == SkuSearch(name)
        candidate == m.token
    IN  IF /\ m.found
           /\ \E i \in 1..Len(candidate) : Ch(candidate, i) \in Digits
           /\ Upper(candidate) \notin _SIZES
           /\ Len(candidate) >= 4
        THEN [title |-> Strip(SubSeq(name, 1, m.start - 1)), sku |-> candidate, has_sku |-> TRUE]
        ELSE [title |-> name, sku |-> "", has_sku |-> FALSE]

-----------------------------------------------------------------------------
(* PARTIE 4 - carry over.                                                  *)

\* unicodedata.normalize("NFD", c) without its combining marks (category Mn)
UnaccentCh(c) ==
    CASE c = "é" -> "e" [] c = "É" -> "E" [] c = "à" -> "a" [] c = "À" -> "A" [] OTHER -> c

\* re.sub(r'["\']+', "", s): the quote characters are dropped
DropQuoteCh(c) == IF c \in {"\"", "'"} THEN "" ELSE c

RECURSIVE CollapseSpaces(_, _)
\* re.sub(r"\s+", " ", s), from position i on
CollapseSpaces(s, i) ==
    IF i > Len(s) THEN ""
    ELSE IF IsSpace(Ch(s, i))
         THEN IF i > 1 /\ IsSpace(Ch(s, i - 1))
              THEN CollapseSpaces(s, i + 1)
              ELSE " " \o CollapseSpaces(s, i + 1)
         ELSE Ch(s, i) \o CollapseSpaces(s, i + 1)

RECURSIVE UnaccentFrom(_, _)
\* the characters of s without their accents, from position i on
UnaccentFrom(s, i) == IF i > Len(s) THEN "" ELSE UnaccentCh(Ch(s, i)) \o UnaccentFrom(s, i + 1)

RECURSIVE DropQuotesFrom(_, _)
\* s without its quote characters, from position i on
DropQuotesFrom(s, i) == IF i > Len(s) THEN "" ELSE DropQuoteCh(Ch(s, i)) \o DropQuotesFrom(s, i + 1)

normalize_name(name) ==
    LET a == UnaccentFrom(name, 1)
        b == DropQuotesFrom(Lower(a), 1)
    IN  Strip(CollapseSpaces(b, 1))

\* get_product_id: barcode.split("-")[0]
get_product_id(barcode) ==
    LET hy == {i \in 1..Len(barcode) : Ch(barcode, i) = "-"}
    IN  IF hy = {} THEN barcode ELSE SubSeq(barcode, 1, Min(hy) - 1)

\* the three columns detect_carry_over adds to a physical record
Enrich(r) ==
    LET nosku == extract_sku_and_title(r.Nom_catalogue).title
    IN  [Article |-> r.Article, Code_barre |-> r.Code_barre,
         Nom_catalogue |-> r.Nom_catalogue, Taille |-> r.Taille, Qte |-> r.Qte,
         Prix_achat |-> r.Prix_achat, Prix_vente |-> r.Prix_vente,
         Name_no_sku |-> nosku, Norm_name |-> normalize_name(nosku),
         Product_ID |-> get_product_id(r.Code_barre)]

\* df.groupby("Norm_name")["Product_ID"]: the distinct product ids of one name
PidsOf(df, norm) == {df[i].Product_ID : i \in {j \in 1..Len(df) : df[j].Norm_name = norm}}

\* f"S{i + 1}"
SeasonLabel(place) == "S" \o IntStr(place)

\* the carry_over_map built from the enriched records
CarryOverMapOf(df) ==
    LET names == {df[i].Norm_name : i \in 1..Len(df)}
        keys  == {<<df[i].Norm_name, df[i].Product_ID>> : i \in 1..Len(df)}
        multi == {k \in keys : Cardinality(PidsOf(df, k[1])) > 1}
    IN  [k \in multi |-> SeasonLabel(SortedPlace(k[2], PidsOf(df, k[1])))]

-----------------------------------------------------------------------------
(* PARTIE 5 - sync_stocks.                                                 *)

\* a variant of PhysIndexPos: the first record of a barcode is kept (first-write-wins)
PhysIndexPosFirst(df, barcode) == Min({i \in 1..Len(df) : df[i].Code_barre = barcode})

\* phys_index = {row["Code_barre"]: row for ...}: a later record replaces an earlier
\* one with the same barcode, so the key leads to the last one in file order
PhysIndexPos(df, barcode) == Max({i \in 1..Len(df) : df[i].Code_barre = barcode})

InPhysIndex(df, barcode) == \E i \in 1..Len(df) : df[i].Code_barre = barcode

\* a variant of QtyDiffers: the old cell (a str) compared with the int quantity, never equal
QtyDiffersStrToInt(old_qty, new_qty) == TRUE

\* old_qty != new_qty, the test that logs a quantity change
QtyDiffers(old_qty, new_qty) == old_qty # new_qty

\* a variant of NeedsZeroing: the empty cell is not taken for a zero
NeedsZeroingUnlessLiteralZero(old_qty) == old_qty # "0"

\* a variant of NeedsZeroing: every absent barcode is zeroed and logged
NeedsZeroingAlways(old_qty) == TRUE

\* old_qty not in ("0", ""), the test that zeroes and logs an absent barcode
NeedsZeroing(old_qty) == old_qty \notin {"0", ""}

\* the rows _get_title walks back over: range(idx - 1, max(idx - 20, -1), -1)
TitleLookBack == 20

\* _get_title(df, idx), idx a position of df
_get_title(df, k) ==
    LET t    == Strip(df[k].Title)
        back == {j \in (Max({k - TitleLookBack, 0}) + 1)..(k - 1) : Strip(df[j].Title) # ""}
    IN  IF t # "" THEN t
        ELSE IF back # {} THEN Strip(df[Max(back)].Title)
        ELSE "(barcode: " \o df[k].Barcode \o ")"

\* f"- {season}" not in cur_title, the test that lets a title be renamed
LacksSeason(cur_title, season) == ~Contains(cur_title, "- " \o season)

\* a variant of ShopifyBarcodes: the barcode cells are not stripped
ShopifyBarcodesUnstripped(df) == {df[i].Barcode : i \in 1..Len(df)}

\* shopify_bc = set(shopify_df[COL_BARCODE].str.strip().unique())
ShopifyBarcodes(df) == {Strip(df[i].Barcode) : i \in 1..Len(df)}

\* one entry of not_in_shop
NewEntry(r) ==
    [Code_barre |-> r.Code_barre, Nom |-> r.Nom_catalogue, Taille |-> r.Taille,
     Qte |-> r.Qte, Prix_achat |-> r.Prix_achat, Prix_vente |-> r.Prix_vente]

RECURSIVE NotInShopFrom(_, _, _)
\* the loop over physical_df that fills not_in_shop, from record i on
NotInShopFrom(df, shop_bc, i) ==
    IF i > Len(df) THEN <<>>
    ELSE LET bc == df[i].Code_barre
         IN  IF bc # "" /\ bc \notin shop_bc
             THEN <<NewEntry(df[i])>> \o NotInShopFrom(df, shop_bc, i + 1)
             ELSE NotInShopFrom(df, shop_bc, i + 1)

\* detect_carry_over, as run_sync calls it before sync_stocks
DetectCarryOver ==
    /\ pc = "detect"
    /\ physical_df' = [i \in 1..Len(physical_df) |-> Enrich(physical_df[i])]
    /\ carry_over_map' = CarryOverMapOf(physical_df')
    /\ pc' = "start"
    /\ UNCHANGED other_vars
    /\ UNCHANGED <<shopify_df, updated, matched, qty_changes, set_to_zero,
                   carry_over_upd, not_in_shop, idx, run, first_in, table_in, mask, table_out, new_df>>

\* a variant of DeepCopy: `updated` is the table passed in, not a copy of it
SameTable == FALSE

\* updated = shopify_df.copy(): DataFrame.copy is deep by default, the copy shares
\* no cell with the table passed in, so a write to `updated` leaves shopify_df alone
DeepCopy == TRUE

\* sync_stocks, up to its row loop: the copy of the table and the empty lists
SyncStart ==
    /\ pc = "start"
    /\ updated' = shopify_df
    /\ matched' = <<>>
    /\ qty_changes' = <<>>
    /\ set_to_zero' = <<>>
    /\ carry_over_upd' = <<>>
    /\ not_in_shop' = <<>>
    /\ idx' = 1
    /\ pc' = "loop"
    /\ UNCHANGED other_vars
    /\ UNCHANGED <<physical_df, shopify_df, carry_over_map, run, first_in, table_in, mask, table_out, new_df>>

\* sync_stocks: one turn of `for idx, row in updated.iterrows()`
SyncRow ==
    /\ pc = "loop"
    /\ idx <= Len(updated)
    /\ LET row     == updated[idx]
           barcode == Strip(row.Barcode)
       IN  IF barcode = ""
           THEN UNCHANGED <<updated, matched, qty_changes, set_to_zero, carry_over_upd>>
           ELSE IF InPhysIndex(physical_df, barcode)
           THEN LET phys    == physical_df[PhysIndexPos(physical_df, barcode)]
                    old_qty == Strip(row.Qty)
                    new_qty == IntStr(phys.Qte)
                    key     == <<phys.Norm_name, phys.Product_ID>>
                    season  == carry_over_map[key]
                    cur_title == Strip(row.Title)
                    rename  == /\ key \in DOMAIN carry_over_map
                               /\ cur_title # ""
                               /\ LacksSeason(cur_title, season)
                    new_title == cur_title \o " - " \o season
                IN  /\ matched' = Append(matched, barcode)
                    /\ qty_changes' =
                         IF QtyDiffers(old_qty, new_qty)
                         THEN Append(qty_changes,
                                     [Code_barre |-> barcode, Titre |-> _get_title(updated, idx),
                                      Ancienne_Qte |-> old_qty, Nouvelle_Qte |-> new_qty])
                         ELSE qty_changes
                    /\ updated' = [updated EXCEPT ![idx].Qty = new_qty,
                                                  ![idx].Title = IF rename THEN new_title ELSE @]
                    /\ carry_over_upd' =
                         IF rename
                         THEN Append(carry_over_upd,
                                     [Code_barre |-> barcode, Ancien_titre |-> cur_title,
                                      Nouveau_titre |-> new_title])
                         ELSE carry_over_upd
                    /\ UNCHANGED set_to_zero
           ELSE LET old_qty == Strip(row.Qty)
                    zeroed  == [updated EXCEPT ![idx].Qty = "0"]
                IN  IF NeedsZeroing(old_qty)
                    THEN /\ updated' = zeroed
                         /\ set_to_zero' = Append(set_to_zero,
                                [Code_barre |-> barcode, Titre |-> _get_title(zeroed, idx),
                                 Ancienne_Qte |-> old_qty])
                         /\ UNCHANGED <<matched, qty_changes, carry_over_upd>>
                    ELSE UNCHANGED <<updated, matched, qty_changes, set_to_zero, carry_over_upd>>
    /\ shopify_df' = IF DeepCopy THEN shopify_df ELSE updated'
    /\ idx' = idx + 1
    /\ UNCHANGED other_vars
    /\ UNCHANGED <<physical_df, carry_over_map, not_in_shop, pc, run,
                   first_in, table_in, mask, table_out, new_df>>

\* sync_stocks, after its row loop: the physical records absent from the platform
CollectNotInShop ==
    /\ pc = "loop"
    /\ idx > Len(updated)
    /\ not_in_shop' = NotInShopFrom(physical_df, ShopifyBarcodes(shopify_df), 1)
    /\ pc' = "done"
    /\ UNCHANGED other_vars
    /\ UNCHANGED <<physical_df, shopify_df, carry_over_map, updated, matched, qty_changes,
                   set_to_zero, carry_over_upd, idx, run, first_in, table_in, mask, table_out, new_df>>

\* a second sync_stocks on the same physical records and carry-over map, fed with
\* the updated table the first one returned
Rerun ==
    /\ pc = "done"
    /\ run = 1
    /\ shopify_df' = updated
    /\ run' = 2
    /\ pc' = "start"
    /\ UNCHANGED other_vars
    /\ UNCHANGED <<physical_df, carry_over_map, updated, matched, qty_changes, set_to_zero,
                   carry_over_upd, not_in_shop, idx, first_in, table_in, mask, table_out, new_df>>

-----------------------------------------------------------------------------
(* The inputs of the reconciliation.                                       *)

\* a record of parse_physical_stock: barcode, article and name are stripped and
\* non-empty, the quantity is an int, the prices are floats (kept in tenths)
PhysRecord(bc, nom, qte) ==
    [Article |-> "ART" \o get_product_id(bc), Code_barre |-> bc, Nom_catalogue |-> nom,
     Taille |-> IF bc = "6-1" THEN "M" ELSE "Taille unique", Qte |-> qte,
     Prix_achat |-> IF bc = "6-1" THEN 125 ELSE 100,
     Prix_vente |-> IF bc = "6-1" THEN 300 ELSE 255]

\* a row of the platform export (parse_shopify: every cell is a str, "" when empty)
PlatformRowOf(title, vendor, barcode, qty) ==
    [Title |-> title, Vendor |-> vendor,
     Status |-> IF title = "" THEN "" ELSE "active",
     Published |-> IF title = "" THEN "" ELSE "TRUE",
     Opt1Name |-> IF title = "" THEN "" ELSE "Taille", Opt1Val |-> "M",
     SKU |-> "", Barcode |-> barcode, Qty |-> qty, Cost |-> "", Price |-> "30.0",
     InvTrack |-> "shopify", InvPol |-> "deny", Fulfill |-> "manual"]

\* a row of a product sold under the vendor "Carhartt WIP"
PlatformRow(title, barcode, qty) ==
    PlatformRowOf(title, IF title = "" THEN "" ELSE "Carhartt WIP", barcode, qty)

\* the tables of 1..n rows over a set of rows
Tables(rows, n) == UNION {[1..k -> rows] : k \in 1..n}

NameOfBarcode(bc) == IF get_product_id(bc) = "6" THEN "VESTE I029" ELSE "Veste  I030"

PhysBarcodes == {"6-1", "7-1"}
PhysQtys     == {0, 3}
PhysRecords  == {PhysRecord(bc, NameOfBarcode(bc), q) : bc \in PhysBarcodes, q \in PhysQtys}

RowBarcodes  == {"", "6-1 ", "9-1"}
RowQtys      == {"", "0", "3 "}
PlatformRows == {PlatformRow("Veste", bc, q) : bc \in RowBarcodes, q \in RowQtys}

OtherIdle ==
    /\ chunks = <<>> /\ brands = <<>> /\ name_in = "" /\ extracted = <<>>
    /\ shopify_csv = <<>> /\ new_products_csv = <<>> /\ combined_csv = <<>>
    /\ result = <<>> /\ response = 0

Idle ==
    /\ OtherIdle
    /\ carry_over_map = <<>> /\ updated = <<>> /\ matched = <<>> /\ qty_changes = <<>>
    /\ set_to_zero = <<>> /\ carry_over_upd = <<>> /\ not_in_shop = <<>>
    /\ idx = 1 /\ run = 1 /\ mask = <<>> /\ table_out = <<>> /\ new_df = <<>>

Init ==
    /\ physical_df \in Tables(PhysRecords, MaxPhys)
    /\ shopify_df \in Tables(PlatformRows, MaxRows)
    /\ first_in = shopify_df
    /\ table_in = <<>>
    /\ pc = "detect"
    /\ Idle

Next == DetectCarryOver \/ SyncStart \/ SyncRow \/ CollectNotInShop \/ Rerun

Spec == Init /\ [][Next]_vars

-----------------------------------------------------------------------------
(* Properties of sync_stocks.                                              *)

\* the run has returned
Done == pc = "done"

\* the barcodes of a list of log entries
LoggedBarcodes(log) == {log[i].Code_barre : i \in 1..Len(log)}

\* the number of entries a barcode has in a list of log entries
TimesLogged(log, b) == Cardinality({i \in 1..Len(log) : log[i].Code_barre = b})

\* the platform rows that carry barcode b (after stripping)
RowsOf(b) == {i \in 1..Len(shopify_df) : Strip(shopify_df[i].Barcode) = b}

\* the non-empty barcodes of the platform export
PlatformBarcodes == {Strip(shopify_df[i].Barcode) : i \in 1..Len(shopify_df)} \ {""}

\* the barcodes of the physical stock
PhysicalBarcodes == {physical_df[j].Code_barre : j \in 1..Len(physical_df)}

\* record j is the last one of the file with its barcode
LastOfBarcode(j) ==
    \A k \in (j + 1)..Len(physical_df) : physical_df[k].Code_barre # physical_df[j].Code_barre

\* C1: after sync_stocks every platform row whose stripped barcode is non-empty and
\* is the barcode of a physical record holds, as quantity, the decimal string of the
\* quantity of the last physical record of the file with that barcode, whether the
\* old quantity differed or not.
C1_MatchedQuantityWritten ==
    Done =>
        \A i \in 1..Len(shopify_df) : \A j \in 1..Len(physical_df) :
            ( /\ Strip(shopify_df[i].Barcode) # ""
              /\ Strip(shopify_df[i].Barcode) = physical_df[j].Code_barre
              /\ LastOfBarcode(j) )
            => updated[i].Qty = IntStr(physical_df[j].Qte)

\* a matched row whose barcode has two physical records of different quantities, the
\* row's old quantity being that of the first one
C1_Witness ==
    /\ Done /\ run = 1
    /\ \E i \in 1..Len(shopify_df) : \E j, k \in 1..Len(physical_df) :
          /\ j < k
          /\ physical_df[j].Code_barre = Strip(shopify_df[i].Barcode)
          /\ physical_df[k].Code_barre = Strip(shopify_df[i].Barcode)
          /\ physical_df[j].Qte # physical_df[k].Qte
          /\ Strip(shopify_df[i].Qty) = IntStr(physical_df[j].Qte)
          /\ updated[i].Qty = IntStr(physical_df[k].Qte)

\* C2 (as stated): after sync_stocks every barcode of the platform export is in
\* exactly one of matched and set_to_zero.
C2_ExactlyOneOfMatchedZeroed ==
    Done =>
        \A b \in PlatformBarcodes :
            (b \in SeqToSet(matched)) # (b \in LoggedBarcodes(set_to_zero))

\* C2 (amended): after sync_stocks no barcode of the platform export is in both
\* matched and set_to_zero, and a barcode is in neither exactly when it is absent
\* from the physical stock and every platform row carrying it already has the
\* quantity "0" or an empty quantity.
C2_AtMostOneOfMatchedZeroed ==
    Done =>
        \A b \in PlatformBarcodes :
            /\ ~(b \in SeqToSet(matched) /\ b \in LoggedBarcodes(set_to_zero))
            /\ (b \notin SeqToSet(matched) /\ b \notin LoggedBarcodes(set_to_zero))
               <=> ( /\ b \notin PhysicalBarcodes
                     /\ \A i \in RowsOf(b) : Strip(shopify_df[i].Qty) \in {"0", ""} )

\* one barcode matched, one zeroed and one, absent with an empty quantity, in neither
C2_Witness ==
    /\ Done /\ run = 1
    /\ matched # <<>>
    /\ \E b \in PlatformBarcodes :
          /\ b \notin SeqToSet(matched)
          /\ b \notin LoggedBarcodes(set_to_zero)
          /\ \E i \in RowsOf(b) : shopify_df[i].Qty = ""

\* the physical records whose barcode no platform row carries, in file order
AbsentFromPlatform ==
    LET absent(r) == r.Code_barre \notin PlatformBarcodes
    IN  SelectSeq(physical_df, absent)

\* C3: after sync_stocks the not_in_shopify list holds, in file order, exactly one
\* entry for every physical record whose barcode is not among the platform export's
\* barcodes, with that record's barcode, name, size, quantity and prices, and no
\* entry for a record whose barcode is in the platform export; every physical record
\* is either matched by a platform row or listed as new, never both, never neither.
C3_NewProductsAreTheComplement ==
    Done =>
        /\ Len(not_in_shop) = Len(AbsentFromPlatform)
        /\ \A n \in 1..Len(not_in_shop) :
              /\ not_in_shop[n].Code_barre = AbsentFromPlatform[n].Code_barre
              /\ not_in_shop[n].Nom        = AbsentFromPlatform[n].Nom_catalogue
              /\ not_in_shop[n].Taille     = AbsentFromPlatform[n].Taille
              /\ not_in_shop[n].Qte        = AbsentFromPlatform[n].Qte
              /\ not_in_shop[n].Prix_achat = AbsentFromPlatform[n].Prix_achat
              /\ not_in_shop[n].Prix_vente = AbsentFromPlatform[n].Prix_vente
        /\ \A j \in 1..Len(physical_df) :
              (physical_df[j].Code_barre \in SeqToSet(matched))
                  # (physical_df[j].Code_barre \in LoggedBarcodes(not_in_shop))

\* a physical record listed as new next to one matched by a row whose barcode cell
\* is padded with whitespace
C3_Witness ==
    /\ Done /\ run = 1
    /\ not_in_shop # <<>>
    /\ \E i \in 1..Len(shopify_df) :
          /\ shopify_df[i].Barcode # Strip(shopify_df[i].Barcode)
          /\ Strip(shopify_df[i].Barcode) \in SeqToSet(matched)

C5_SecondRunChangesNothing ==
    (Done /\ run = 2) => qty_changes = <<>>

\* a second run has returned after a first run that rewrote a matched quantity
C5_Witness ==
    /\ Done /\ run = 2
    /\ \E i \in 1..Len(first_in) :
          /\ Strip(first_in[i].Barcode) \in SeqToSet(matched)
          /\ Strip(first_in[i].Qty) # updated[i].Qty

-----------------------------------------------------------------------------
(* PARTIE 7 - filter_zero_stock_products.                                  *)

MaxFilterRows == 3      \* rows of a table handed to the filter

RECURSIVE CommaToDotFrom(_, _)
\* s.replace(",", "."), from position i on
CommaToDotFrom(s, i) ==
    IF i > Len(s) THEN ""
    ELSE (IF Ch(s, i) = "," THEN "." ELSE Ch(s, i)) \o CommaToDotFrom(s, i + 1)

\* float(s) for a text without exponent and without digit-group underscores:
\* [kind |-> "num" | "inf" | "nan" | "error" (ValueError), neg, whole (integer part)]
FloatOf(s) ==
    LET t      == Strip(s)
        signed == t # "" /\ Ch(t, 1) \in {"+", "-"}
        neg    == t # "" /\ Ch(t, 1) = "-"
        body   == IF signed THEN SubSeq(t, 2, Len(t)) ELSE t
        dots   == {i \in 1..Len(body) : Ch(body, i) = "."}
        digits == {i \in 1..Len(body) : Ch(body, i) \in Digits}
        isnum  == /\ Cardinality(dots) <= 1
                  /\ digits # {}
                  /\ dots \cup digits = 1..Len(body)
        whole  == IF dots = {} THEN body ELSE SubSeq(body, 1, Min(dots) - 1)
    IN  IF Lower(body) \in {"inf", "infinity"} THEN [kind |-> "inf", neg |-> neg, whole |-> 0]
        ELSE IF Lower(body) = "nan" THEN [kind |-> "nan", neg |-> neg, whole |-> 0]
        ELSE IF isnum THEN [kind |-> "num", neg |-> neg, whole |-> DecVal(whole)]
        ELSE [kind |-> "error", neg |-> FALSE, whole |-> 0]

\* int(float(text.replace(",", "."))) under `except (ValueError, TypeError)`: int()
\* truncates towards zero, raises ValueError on nan (caught: 0) and OverflowError on
\* an infinity (not caught).  [raises, value]
IntOfFloatText(text) ==
    LET f == FloatOf(CommaToDotFrom(text, 1))
    IN  CASE f.kind = "num" -> [raises |-> FALSE, value |-> IF f.neg THEN 0 - f.whole ELSE f.whole]
          [] f.kind = "inf" -> [raises |-> TRUE, value |-> 0]
          [] OTHER          -> [raises |-> FALSE, value |-> 0]

\* to_int of filter_zero_stock_products
to_int(val) == IntOfFloatText(val)

\* a variant of TitleHasStock: each row overwrites the flag of its title, so that
\* the last row of a title decides
TitleHasStockLastRow(df, title) ==
    LET rows == {i \in 1..Len(df) : Strip(df[i].Title) = title}
    IN  to_int(df[Max(rows)].Qty).value > 0

\* title_has_stock[title] after the first pass, for a title some row carries
TitleHasStock(df, title) ==
    \E i \in 1..Len(df) : Strip(df[i].Title) = title /\ to_int(df[i].Qty).value > 0

\* the first pass calls to_int on every row with a non-empty title
FirstPassRaises(df) ==
    \E i \in 1..Len(df) : Strip(df[i].Title) # "" /\ to_int(df[i].Qty).raises

\* mask = df[COL_TITLE].apply(lambda t: title_has_stock.get(str(t).strip(), True))
MaskOf(df) ==
    [i \in 1..Len(df) |->
        IF Strip(df[i].Title) = "" THEN TRUE ELSE TitleHasStock(df, Strip(df[i].Title))]

RECURSIVE MaskedFrom(_, _, _)
\* df[mask].reset_index(drop=True), from row i on
MaskedFrom(df, m, i) ==
    IF i > Len(df) THEN <<>>
    ELSE IF m[i] THEN <<df[i]>> \o MaskedFrom(df, m, i + 1)
    ELSE MaskedFrom(df, m, i + 1)

\* filter_zero_stock_products returns
FilterReturns ==
    /\ pc = "filter"
    /\ ~FirstPassRaises(table_in)
    /\ mask' = MaskOf(table_in)
    /\ table_out' = IF table_in = <<>> THEN table_in ELSE MaskedFrom(table_in, mask', 1)
    /\ pc' = "filtered"
    /\ UNCHANGED other_vars
    /\ UNCHANGED <<physical_df, shopify_df, carry_over_map, updated, matched, qty_changes,
                   set_to_zero, carry_over_upd, not_in_shop, idx, run, first_in, table_in, new_df>>

\* filter_zero_stock_products is left by the OverflowError of to_int
FilterRaises ==
    /\ pc = "filter"
    /\ FirstPassRaises(table_in)
    /\ pc' = "raised"
    /\ UNCHANGED other_vars
    /\ UNCHANGED <<physical_df, shopify_df, carry_over_map, updated, matched, qty_changes,
                   set_to_zero, carry_over_upd, not_in_shop, idx, run, first_in, table_in,
                   mask, table_out, new_df>>

FilterTitles == {"", "Tee", " Tee ", "Cap"}
FilterQtys   == {"0", "3", "x", "0,5", "-2", "inf"}
FilterRows   == {PlatformRow(t, "9-1", q) : t \in FilterTitles, q \in FilterQtys}

InitFilter ==
    /\ table_in \in UNION {[1..k -> FilterRows] : k \in 0..MaxFilterRows}
    /\ pc = "filter"
    /\ physical_df = <<>> /\ shopify_df = <<>> /\ first_in = <<>>
    /\ Idle

NextFilter == FilterReturns \/ FilterRaises

SpecFilter == InitFilter /\ [][NextFilter]_vars

-----------------------------------------------------------------------------
(* Properties of filter_zero_stock_products.                               *)

Filtered == pc = "filtered"

\* the rows of the product whose title row is row i: row i and the blank-title
\* variant rows that follow it, up to the next row with a title
ProductRows(i) ==
    {k \in i..Len(table_in) : \A j \in (i + 1)..k : Strip(table_in[j].Title) = ""}

\* C6 (as stated): for a product laid out as in the platform export (a title row
\* followed by blank-title variant rows; no other row has its title) the filter
\* keeps all its rows if a variant has a quantity > 0 and removes all its rows if
\* every variant has the quantity 0.
C6_NoPartialRemoval ==
    Filtered =>
        \A i \in 1..Len(table_in) :
            ( /\ Strip(table_in[i].Title) # ""
              /\ \A j \in 1..Len(table_in) :
                    j # i => Strip(table_in[j].Title) # Strip(table_in[i].Title) )
            => LET stocked == \E k \in ProductRows(i) : to_int(table_in[k].Qty).value > 0
               IN  \A k \in ProductRows(i) : mask[k] = stocked

\* the rows that carry the (stripped, non-empty) title t
TitleGroup(t) == {i \in 1..Len(table_in) : Strip(table_in[i].Title) = t}

\* the number of rows kept among the first i rows
KeptUpTo(i) == Cardinality({j \in 1..i : mask[j]})

-----------------------------------------------------------------------------
(* detect_carry_over on its own.                                           *)

MaxCarryRecs == 3       \* physical records handed to detect_carry_over

CarryBarcodes == {"9-1", "10-1", "65368-2", "75368-2"}
CarryNames    == {"VESTE NOIRE I029375.931.XX", "Véste  \"noire\" I029375.932.XX", "TEE"}
CarryRecords  == {PhysRecord(bc, nom, 1) : bc \in CarryBarcodes, nom \in CarryNames}

InitCarry ==
    /\ physical_df \in Tables(CarryRecords, MaxCarryRecs)
    /\ shopify_df = <<>> /\ first_in = <<>> /\ table_in = <<>>
    /\ pc = "detect"
    /\ Idle

NextCarry == DetectCarryOver

SpecCarry == InitCarry /\ [][NextCarry]_vars

\* detect_carry_over has returned
Detected == pc = "start"

\* the normalized names of the records, and the distinct product ids of one name
NormNames == {physical_df[i].Norm_name : i \in 1..Len(physical_df)}
ProductIds(n) ==
    {physical_df[i].Product_ID : i \in {j \in 1..Len(physical_df) : physical_df[j].Norm_name = n}}

\* the number of ids of S that come before id p in ascending string order
IdsBefore(p, S) == Cardinality({q \in S : StrLess(q, p)})

\* C8: in the carry-over map, for every normalized name whose records span k >= 2
\* distinct product ids, the ids in ascending lexicographic (string) order are mapped
\* to S1, S2, ..., Sk ("65368" to S1 and "75368" to S2; "10" before "9"), and a key
\* (name, id) is in the map only if its name has at least two distinct ids.
C8_SeasonsInAscendingIdOrder ==
    Detected =>
        /\ \A n \in NormNames :
              Cardinality(ProductIds(n)) >= 2 =>
                  /\ \A p \in ProductIds(n) :
                        /\ <<n, p>> \in DOMAIN carry_over_map
                        /\ carry_over_map[<<n, p>>] = "S" \o ToString(IdsBefore(p, ProductIds(n)) + 1)
                  /\ ProductIds(n) = {"65368", "75368"} =>
                        /\ carry_over_map[<<n, "65368">>] = "S1"
                        /\ carry_over_map[<<n, "75368">>] = "S2"
                  /\ ProductIds(n) = {"9", "10"} =>
                        /\ carry_over_map[<<n, "10">>] = "S1"
                        /\ carry_over_map[<<n, "9">>] = "S2"
        /\ \A key \in DOMAIN carry_over_map :
              /\ key[1] \in NormNames
              /\ key[2] \in ProductIds(key[1])
              /\ Cardinality(ProductIds(key[1])) >= 2

\* one name (written with and without accent, quotes and SKU version) on the three
\* ids "10", "65368" and "9", labelled S1, S2 and S3 in that order
C8_Witness ==
    /\ Detected
    /\ Len(physical_df) = 3
    /\ physical_df[1].Nom_catalogue # physical_df[2].Nom_catalogue
    /\ DOMAIN carry_over_map = {<<"veste noire", "10">>, <<"veste noire", "65368">>,
                                <<"veste noire", "9">>}
    /\ carry_over_map[<<"veste noire", "10">>] = "S1"
    /\ carry_over_map[<<"veste noire", "65368">>] = "S2"
    /\ carry_over_map[<<"veste noire", "9">>] = "S3"

-----------------------------------------------------------------------------
(* sync_stocks on titled rows: the carry-over renaming.                    *)

TitledNames   == {"VESTE I029", "Veste  I030"}
TitledRecords == {PhysRecord(bc, nom, 3) : bc \in PhysBarcodes, nom \in TitledNames}

RowTitles  == {"", " Veste ", "Veste - S1", "Veste - S10"}
TitledRows == {PlatformRow(t, bc, "3") : t \in RowTitles, bc \in PhysBarcodes}

InitTitles ==
    /\ physical_df \in Tables(TitledRecords, MaxPhys)
    /\ shopify_df \in Tables(TitledRows, MaxRows)
    /\ first_in = shopify_df
    /\ table_in = <<>>
    /\ pc = "detect"
    /\ Idle

SpecTitles == InitTitles /\ [][Next]_vars

\* the season label of the physical record matched by platform row i ("" if none)
SeasonOfRow(i) ==
    LET b   == Strip(shopify_df[i].Barcode)
        rec == {j \in 1..Len(physical_df) : physical_df[j].Code_barre = b /\ LastOfBarcode(j)}
        j   == CHOOSE j \in rec : TRUE
        key == <<physical_df[j].Norm_name, physical_df[j].Product_ID>>
    IN  IF b = "" \/ rec = {} THEN ""
        ELSE IF key \in DOMAIN carry_over_map THEN carry_over_map[key] ELSE ""

\* row i is to be renamed, as the claim has it: it is matched by a record with a
\* season label, its title is not blank and does not end with " - S<n>"
ToRename(i) ==
    /\ SeasonOfRow(i) # ""
    /\ Strip(shopify_df[i].Title) # ""
    /\ ~EndsWith(Strip(shopify_df[i].Title), " - " \o SeasonOfRow(i))

\* C9 (as stated): for every matched platform row whose physical record has a season
\* label S<n>: if the row's title is non-empty and does not end with " - S<n>", the
\* title becomes the old title followed by " - S<n>" and one rename entry is logged
\* for the row; if the title cell is blank, it stays blank and no rename is logged.
C9_SeasonSuffixAppended ==
    Done =>
        /\ \A i \in 1..Len(shopify_df) :
              /\ ToRename(i) =>
                    updated[i].Title = Strip(shopify_df[i].Title) \o " - " \o SeasonOfRow(i)
              /\ (SeasonOfRow(i) # "" /\ Strip(shopify_df[i].Title) = "") =>
                    updated[i].Title = shopify_df[i].Title
        /\ \A b \in PlatformBarcodes :
              TimesLogged(carry_over_upd, b) = Cardinality({i \in RowsOf(b) : ToRename(i)})

-----------------------------------------------------------------------------
(* PARTIE 2 - the brand map and the vendor of a title.                     *)

StartsWith(s, pre) == Len(s) >= Len(pre) /\ SubSeq(s, 1, Len(pre)) = pre

IsCasedCh(c) == IsUpperCh(c) \/ IsLowerCh(c)

RECURSIVE TitleFrom(_, _)
\* str.title() of s from position i on: a cased character is lowered after a
\* cased character and raised anywhere else
TitleFrom(s, i) ==
    IF i > Len(s) THEN ""
    ELSE (IF i > 1 /\ IsCasedCh(Ch(s, i - 1)) THEN LowerCh(Ch(s, i)) ELSE UpperCh(Ch(s, i)))
         \o TitleFrom(s, i + 1)

TitleCase(s) == TitleFrom(s, 1)

\* the brands of KNOWN_BRANDS_RAW that the names of the model start with, in the
\* order of the list
KNOWN_BRANDS_RAW == <<"Carhartt WIP", "Carhartt", "Nike Sb", "Vans">>

\* dict assignment d[key] = value on a dict kept as the sequence of its items: the
\* value of a key already there is replaced in place, a new key goes last
DictSet(d, key, value) ==
    IF \E i \in 1..Len(d) : d[i].key = key
    THEN [i \in 1..Len(d) |-> IF d[i].key = key THEN [key |-> key, value |-> value] ELSE d[i]]
    ELSE Append(d, [key |-> key, value |-> value])

\* a variant of SortedByKeyLength: the items are left in insertion order
InsertionOrder(d) == d

\* dict(sorted(d.items(), key=lambda x: len(x[0]), reverse=True)): a stable sort,
\* items of equal key length keep their order
SortedByKeyLength(d) ==
    LET place(i) == Cardinality({j \in 1..Len(d) : Len(d[j].key) > Len(d[i].key)})
                    + Cardinality({j \in 1..i : Len(d[j].key) = Len(d[i].key)})
    IN  [n \in 1..Len(d) |-> d[CHOOSE i \in 1..Len(d) : place(i) = n]]

RECURSIVE BrandDictFrom(_, _, _)
\* {b.upper(): b for b in KNOWN_BRANDS_RAW}, from brand i on
BrandDictFrom(raw, i, d) ==
    IF i > Len(raw) THEN d ELSE BrandDictFrom(raw, i + 1, DictSet(d, Upper(raw[i]), raw[i]))

KNOWN_BRANDS == SortedByKeyLength(BrandDictFrom(KNOWN_BRANDS_RAW, 1, <<>>))

RECURSIVE UniqueFrom(_, _, _)
\* Series.unique(): the distinct values in the order of their first row
UniqueFrom(q, i, seen) ==
    IF i > Len(q) THEN seen
    ELSE UniqueFrom(q, i + 1, IF q[i] \in SeqToSet(seen) THEN seen ELSE Append(seen, q[i]))

\* the test that lets a platform vendor into the brand map
VendorAccepted(v) ==
    /\ Strip(v) # ""
    /\ ~StartsWith(v, "À")
    /\ Lower(v) \notin {"a corriger", ""}

RECURSIVE MergeVendorsKeepStatic(_, _, _)
\* a variant of MergeVendorsFrom: a key already in the map keeps its value
MergeVendorsKeepStatic(vendors, i, merged) ==
    IF i > Len(vendors) THEN merged
    ELSE MergeVendorsKeepStatic(vendors, i + 1,
            IF VendorAccepted(vendors[i]) /\ \A j \in 1..Len(merged) : merged[j].key # Upper(vendors[i])
            THEN DictSet(merged, Upper(vendors[i]), vendors[i])
            ELSE merged)

RECURSIVE MergeVendorsFrom(_, _, _)
\* the loop over the platform vendors, from vendor i on
MergeVendorsFrom(vendors, i, merged) ==
    IF i > Len(vendors) THEN merged
    ELSE MergeVendorsFrom(vendors, i + 1,
            IF VendorAccepted(vendors[i])
            THEN DictSet(merged, Upper(vendors[i]), vendors[i])
            ELSE merged)

build_vendor_list(df) ==
    LET vendors == UniqueFrom([i \in 1..Len(df) |-> Strip(df[i].Vendor)], 1, <<>>)
    IN  SortedByKeyLength(MergeVendorsFrom(vendors, 1, KNOWN_BRANDS))

\* extract_vendor_and_name: [vendor, product_title]
extract_vendor_and_name(title_upper, vendor_map) ==
    LET t      == Upper(title_upper)
        hits   == {i \in 1..Len(vendor_map) :
                      StartsWith(t, vendor_map[i].key \o " ") \/ t = vendor_map[i].key}
        first  == vendor_map[Min(hits)]
        spaces == {i \in 1..Len(t) : Ch(t, i) = " "}
    IN  IF hits # {}
        THEN [vendor |-> first.value,
              product_title |-> TitleCase(Strip(SubSeq(t, Len(first.key) + 1, Len(t))))]
        ELSE IF spaces # {}
        THEN [vendor |-> TitleCase(SubSeq(t, 1, Min(spaces) - 1)),
              product_title |-> TitleCase(SubSeq(t, Min(spaces) + 1, Len(t)))]
        ELSE [vendor |-> TitleCase(t), product_title |-> ""]

-----------------------------------------------------------------------------
(* PARTIE 6 - generate_new_products.                                       *)

MaxCands == 3       \* new-product candidates handed to generate_new_products

HandleChars == LowerLetters \cup Digits

RECURSIVE HyphenateFrom(_, _)
\* re.sub(r"[^a-z0-9]+", "-", h), from position i on
HyphenateFrom(h, i) ==
    IF i > Len(h) THEN ""
    ELSE IF Ch(h, i) \in HandleChars THEN Ch(h, i) \o HyphenateFrom(h, i + 1)
    ELSE IF i > 1 /\ Ch(h, i - 1) \notin HandleChars THEN HyphenateFrom(h, i + 1)
    ELSE "-" \o HyphenateFrom(h, i + 1)

\* str.strip("-")
StripHyphens(s) ==
    LET keep == {i \in 1..Len(s) : Ch(s, i) # "-"}
    IN  IF keep = {} THEN "" ELSE SubSeq(s, Min(keep), Max(keep))

generate_handle(title) == StripHyphens(HyphenateFrom(UnaccentFrom(Lower(title), 1), 1))

\* str(x) for a float x with one decimal, kept in tenths
FloatStr(tenths) ==
    IF tenths < 0
    THEN "-" \o IntStr((0 - tenths) \div 10) \o "." \o IntStr((0 - tenths) % 10)
    ELSE IntStr(tenths \div 10) \o "." \o IntStr(tenths % 10)

\* Etape 1: one parsed item
ParsedItem(item, vendor_list) ==
    LET st == extract_sku_and_title(item.Nom)
        vn == extract_vendor_and_name(st.title, vendor_list)
        full_title == Strip(vn.vendor \o " " \o vn.product_title)
    IN  [item |-> item, _clean_name |-> st.title, _sku |-> st.sku, _vendor |-> vn.vendor,
         _product_title |-> full_title, _handle |-> generate_handle(full_title)]

\* a variant of ProductKey: the products are told apart by their handle alone
ProductKeyHandleOnly(parsed) == <<parsed._handle, "">>

\* Etape 2: key = (item["_handle"], item["_sku"])
ProductKey(parsed) == <<parsed._handle, parsed._sku>>

RECURSIVE ByProductFrom(_, _, _)
\* by_product[key].append(item) for the items from i on; the dict is kept as the
\* sequence of its [key, variants] items, a new key going last
ByProductFrom(parsed, i, groups) ==
    IF i > Len(parsed) THEN groups
    ELSE LET key == ProductKey(parsed[i])
             at  == {g \in 1..Len(groups) : groups[g].key = key}
         IN  ByProductFrom(parsed, i + 1,
                IF at = {}
                THEN Append(groups, [key |-> key, variants |-> <<parsed[i]>>])
                ELSE [groups EXCEPT ![Min(at)].variants = Append(@, parsed[i])])

\* Etape 3: the row of variant number i (0 for the first) of a group whose first
\* variant is ref
NewRow(ref, variant, i) ==
    [Title     |-> ref._product_title,
     Vendor    |-> IF i = 0 THEN ref._vendor ELSE "",
     Status    |-> IF i = 0 THEN "draft" ELSE "",
     Published |-> IF i = 0 THEN "FALSE" ELSE "",
     Opt1Name  |-> IF i = 0 THEN "Taille" ELSE "",
     Opt1Val   |-> variant.item.Taille,
     SKU       |-> variant._sku,
     Barcode   |-> variant.item.Code_barre,
     Qty       |-> IntStr(variant.item.Qte),
     Cost      |-> FloatStr(variant.item.Prix_achat),
     Price     |-> FloatStr(variant.item.Prix_vente),
     InvTrack  |-> "shopify", InvPol |-> "deny", Fulfill |-> "manual"]

RECURSIVE NewRowsFrom(_, _)
\* the rows of the groups from group g on
NewRowsFrom(groups, g) ==
    IF g > Len(groups) THEN <<>>
    ELSE [i \in 1..Len(groups[g].variants) |->
             NewRow(groups[g].variants[1], groups[g].variants[i], i - 1)]
         \o NewRowsFrom(groups, g + 1)

generate_new_products(candidates, df) ==
    IF candidates = <<>> THEN <<>>
    ELSE LET vendor_list == build_vendor_list(df)
             parsed == [i \in 1..Len(candidates) |-> ParsedItem(candidates[i], vendor_list)]
         IN  NewRowsFrom(ByProductFrom(parsed, 1, <<>>), 1)

GenerateNewProducts ==
    /\ pc = "generate"
    /\ new_df' = generate_new_products(not_in_shop, shopify_df)
    /\ pc' = "generated"
    /\ UNCHANGED other_vars
    /\ UNCHANGED <<physical_df, shopify_df, carry_over_map, updated, matched, qty_changes,
                   set_to_zero, carry_over_upd, not_in_shop, idx, run, first_in, table_in,
                   mask, table_out>>

NewNames      == {"VANS TEE I029", "vans  tee I029", "VANS TEE I030", "GX1000 CAP"}
NewCandidates == {NewEntry(PhysRecord(bc, nom, 2)) : bc \in {"6-1", "6-2"}, nom \in NewNames}
NewShopTables ==
    { <<PlatformRowOf("Veste", "Carhartt WIP", "9-1", "3")>>,
      <<PlatformRowOf("Old Skool", "VANS", "9-2", "1"), PlatformRowOf("", "", "9-3", "0")>> }

InitNew ==
    /\ not_in_shop \in UNION {[1..k -> NewCandidates] : k \in 0..MaxCands}
    /\ shopify_df \in NewShopTables
    /\ physical_df = <<>> /\ first_in = <<>> /\ table_in = <<>>
    /\ carry_over_map = <<>> /\ updated = <<>> /\ matched = <<>> /\ qty_changes = <<>>
    /\ set_to_zero = <<>> /\ carry_over_upd = <<>>
    /\ idx = 1 /\ run = 1 /\ mask = <<>> /\ table_out = <<>> /\ new_df = <<>>
    /\ pc = "generate"
    /\ OtherIdle

NextNew == GenerateNewProducts

SpecNew == InitNew /\ [][NextNew]_vars

Generated == pc = "generated"

\* the (handle, SKU) of a candidate, worked out from its name and the brand map
HandleAndSku(c) ==
    LET p == ParsedItem(c, build_vendor_list(shopify_df)) IN <<p._handle, p._sku>>

\* row r of new_df carries the variant fields of candidate c
CarriesVariantOf(r, c) ==
    /\ new_df[r].Opt1Val = c.Taille
    /\ new_df[r].SKU     = HandleAndSku(c)[2]
    /\ new_df[r].Barcode = c.Code_barre
    /\ new_df[r].Qty     = IntStr(c.Qte)
    /\ new_df[r].Cost    = FloatStr(c.Prix_achat)
    /\ new_df[r].Price   = FloatStr(c.Prix_vente)

\* new_df is not_in_shop regrouped: from[r] is the candidate behind row r
GroupedRows(published) ==
    LET n == Len(not_in_shop)
        key(from, r) == HandleAndSku(not_in_shop[from[r]])
        opens(from, r) == r = 1 \/ key(from, r - 1) # key(from, r)
    IN  /\ Len(new_df) = n
        /\ \E from \in [1..n -> 1..n] :
              /\ \A a, b \in 1..n : a # b => from[a] # from[b]
              /\ \A r \in 1..n : CarriesVariantOf(r, not_in_shop[from[r]])
              /\ \A a, b, c \in 1..n :
                    a < b /\ b < c /\ key(from, a) = key(from, c) => key(from, b) = key(from, a)
              /\ \A a, b \in 1..n :
                    a < b /\ key(from, a) = key(from, b) => from[a] < from[b]
              /\ \A r \in 1..n :
                    LET p == ParsedItem(not_in_shop[from[r]], build_vendor_list(shopify_df))
                    IN  IF opens(from, r)
                        THEN /\ new_df[r].Title     = p._product_title
                             /\ new_df[r].Vendor    = p._vendor
                             /\ new_df[r].Vendor    # ""
                             /\ new_df[r].Status    = "draft"
                             /\ new_df[r].Published = published
                             /\ new_df[r].Opt1Name  = "Taille"
                        ELSE /\ new_df[r].Title     = new_df[r - 1].Title
                             /\ new_df[r].Vendor    = ""
                             /\ new_df[r].Status    = ""
                             /\ new_df[r].Published = ""
                             /\ new_df[r].Opt1Name  = ""

\* C10 as stated: generate_new_products emits one row per candidate, the candidates
\* of one (handle, SKU) forming one contiguous group in their original order; the
\* first row of a group carries the vendor, status "draft", published "false" and
\* option name "Taille", the later rows repeat the title and leave those fields
\* blank; every row carries its own size, SKU, barcode, quantity, cost and price.
C10_PublishedLowercase == Generated => GroupedRows("false")

\* C10 with the published cell as the code writes it: the same statement with
\* published "FALSE" on the first row of each group.
C10_OneRowPerCandidateGrouped == Generated => GroupedRows("FALSE")

\* three candidates, the first and the third of one product under different
\* catalogue names and the second of another: the third moves up next to the first
C10_Witness ==
    /\ Generated
    /\ Len(not_in_shop) = 3
    /\ HandleAndSku(not_in_shop[1]) = HandleAndSku(not_in_shop[3])
    /\ HandleAndSku(not_in_shop[1]) # HandleAndSku(not_in_shop[2])
    /\ HandleAndSku(not_in_shop[1])[1] = HandleAndSku(not_in_shop[2])[1]
    /\ not_in_shop[1].Nom # not_in_shop[3].Nom
    /\ not_in_shop[1].Code_barre # not_in_shop[3].Code_barre
    /\ new_df[2].Barcode = not_in_shop[3].Code_barre
    /\ new_df[2].Vendor = "" /\ new_df[3].Vendor # ""

-----------------------------------------------------------------------------
(* POINT D'ENTREE - run_sync after sync_stocks, and the /sync route.       *)

\* shopify_df.columns: the columns of the platform export, in its order
Columns ==
    <<"Title", "Vendor", "Status", "Published", "Opt1Name", "Opt1Val", "SKU", "Barcode",
      "Qty", "Cost", "Price", "InvTrack", "InvPol", "Fulfill">>

RECURSIVE DoubleQuotesFrom(_, _)
\* the quote characters of a cell doubled, from position i on
DoubleQuotesFrom(c, i) ==
    IF i > Len(c) THEN ""
    ELSE (IF Ch(c, i) = "\"" THEN "\"\"" ELSE Ch(c, i)) \o DoubleQuotesFrom(c, i + 1)

\* csv.QUOTE_MINIMAL: a cell holding the separator, a quote or a line end is quoted
CsvField(c) ==
    IF \E i \in 1..Len(c) : Ch(c, i) \in {",", "\"", "\n"}
    THEN "\"" \o DoubleQuotesFrom(c, 1) \o "\""
    ELSE c

RECURSIVE JoinFrom(_, _)
\* ",".join(cells), from cell i on
JoinFrom(cells, i) ==
    IF i > Len(cells) THEN ""
    ELSE IF i = Len(cells) THEN cells[i]
    ELSE cells[i] \o "," \o JoinFrom(cells, i + 1)

CsvLine(row) == JoinFrom([c \in 1..Len(Columns) |-> CsvField(row[Columns[c]])], 1)

\* DataFrame.to_csv(buf, index=False) as the lines written: the header, then one
\* line per row
to_csv(df) == <<JoinFrom(Columns, 1)>> \o [i \in 1..Len(df) |-> CsvLine(df[i])]

\* a variant of CombinedDf: the updated platform rows first
CombinedDfUpdatedFirst(new, shopify_updated) == shopify_updated \o new

\* pd.concat([new_df, shopify_updated], ignore_index=True)
CombinedDf(new, shopify_updated) == new \o shopify_updated

\* lines 686-688: the updated platform table is written out
ExportUpdated ==
    /\ pc = "done"
    /\ shopify_csv' = to_csv(updated)
    /\ pc' = "generate"
    /\ UNCHANGED <<physical_df, shopify_df, carry_over_map, updated, matched, qty_changes,
                   set_to_zero, carry_over_upd, not_in_shop, idx, run, first_in, table_in,
                   mask, table_out, new_df, chunks, brands, name_in, extracted,
                   new_products_csv, combined_csv, result, response>>

\* lines 691-707: the new-products and combined exports, and the table handed to
\* filter_zero_stock_products
Combine ==
    /\ pc = "generated"
    /\ IF new_df # <<>>
       THEN /\ new_products_csv' = to_csv(new_df)
            /\ table_in' = CombinedDf(new_df, updated)
            /\ combined_csv' = to_csv(table_in')
       ELSE /\ new_products_csv' = <<>>
            /\ table_in' = updated
            /\ combined_csv' = shopify_csv
    /\ pc' = "filter"
    /\ UNCHANGED <<physical_df, shopify_df, carry_over_map, updated, matched, qty_changes,
                   set_to_zero, carry_over_upd, not_in_shop, idx, run, first_in,
                   mask, table_out, new_df, chunks, brands, name_in, extracted,
                   shopify_csv, result, response>>

\* the stats dict of sync_stocks
Stats ==
    [total_physical |-> Len(physical_df), total_shopify |-> Len(shopify_df),
     matched |-> Len(matched), qty_changes |-> qty_changes, set_to_zero |-> set_to_zero,
     not_in_shopify |-> not_in_shop, carry_over_updates |-> carry_over_upd]

\* generate_report: the counts of the head of the report
generate_report(stats) ==
    <<"RAPPORT DE SYNCHRONISATION",
      IntStr(stats.total_physical) \o " articles",
      IntStr(stats.total_shopify) \o " lignes",
      IntStr(stats.matched), IntStr(Len(stats.qty_changes)), IntStr(Len(stats.set_to_zero)),
      IntStr(Len(stats.not_in_shopify)), IntStr(Len(stats.carry_over_updates)),
      "FIN DU RAPPORT">>

\* lines 708-719: the filtered export and the dict returned
ReturnBundle ==
    /\ pc = "filtered"
    /\ result' = [shopify_csv      |-> shopify_csv,
                  new_products_csv |-> new_products_csv,
                  combined_csv     |-> combined_csv,
                  filtered_csv     |-> to_csv(table_out),
                  report           |-> generate_report(Stats),
                  stats            |-> Stats]
    /\ pc' = "returned"
    /\ UNCHANGED <<physical_df, shopify_df, carry_over_map, updated, matched, qty_changes,
                   set_to_zero, carry_over_upd, not_in_shop, idx, run, first_in, table_in,
                   mask, table_out, new_df, chunks, brands, name_in, extracted,
                   shopify_csv, new_products_csv, combined_csv, response>>

\* the keys of the result that the /sync route reads (app.py)
KeysRead ==
    {"shopify_csv", "new_products_csv", "combined_csv", "filtered_csv", "rapport_csv",
     "stats", "report"}

\* the /sync route: a KeyError of a read, like an exception of run_sync, is turned
\* into HTTP 500 by the except clause; otherwise the JSON response (200)
SyncRoute ==
    /\ pc \in {"returned", "raised"}
    /\ response' = IF pc = "returned" /\ KeysRead \subseteq DOMAIN result THEN 200 ELSE 500
    /\ pc' = IF pc = "returned" THEN "responded" ELSE "failed"
    /\ UNCHANGED <<physical_df, shopify_df, carry_over_map, updated, matched, qty_changes,
                   set_to_zero, carry_over_upd, not_in_shop, idx, run, first_in, table_in,
                   mask, table_out, new_df, chunks, brands, name_in, extracted,
                   shopify_csv, new_products_csv, combined_csv, result>>

RunRecords == {PhysRecord(bc, NameOfBarcode(bc), 3) : bc \in PhysBarcodes}
RunRows ==
    {PlatformRow("Veste", bc, q) : bc \in RowBarcodes, q \in {"0", "3 "}}
        \cup {PlatformRow("Veste", "", "inf")}

InitRun ==
    /\ physical_df \in Tables(RunRecords, MaxPhys)
    /\ shopify_df \in Tables(RunRows, MaxRows)
    /\ first_in = shopify_df
    /\ table_in = <<>>
    /\ pc = "detect"
    /\ Idle

NextRun ==
    \/ DetectCarryOver \/ SyncStart \/ SyncRow \/ CollectNotInShop
    \/ ExportUpdated \/ GenerateNewProducts \/ Combine
    \/ FilterReturns \/ FilterRaises \/ ReturnBundle \/ SyncRoute

SpecRun == InitRun /\ [][NextRun]_vars

Returned == pc \in {"returned", "responded"}

RECURSIVE LinesOf(_, _)
\* the lines of the rows of a table from row i on, each cell written as it stands
LinesOf(df, i) ==
    IF i > Len(df) THEN <<>>
    ELSE <<df[i].Title \o "," \o df[i].Vendor \o "," \o df[i].Status \o "," \o df[i].Published
           \o "," \o df[i].Opt1Name \o "," \o df[i].Opt1Val \o "," \o df[i].SKU \o ","
           \o df[i].Barcode \o "," \o df[i].Qty \o "," \o df[i].Cost \o "," \o df[i].Price
           \o "," \o df[i].InvTrack \o "," \o df[i].InvPol \o "," \o df[i].Fulfill>>
         \o LinesOf(df, i + 1)

\* C11: the combined export returned by run_sync is the header, then the lines of
\* the new-product rows in synthesis order, then the lines of the updated platform
\* rows in their order, none lost or duplicated; without candidates the
\* new-products export is empty and the combined export is the updated export.
C11_CombinedIsNewThenUpdated ==
    Returned =>
        /\ Len(result.combined_csv) = 1 + Len(new_df) + Len(updated)
        /\ SubSeq(result.combined_csv, 2, Len(result.combined_csv))
              = LinesOf(new_df, 1) \o LinesOf(updated, 1)
        /\ Len(new_df) = Len(not_in_shop)
        /\ Len(updated) = Len(shopify_df)
        /\ not_in_shop = <<>> =>
              /\ result.new_products_csv = <<>>
              /\ result.combined_csv = result.shopify_csv

\* a run with a new-product candidate and a platform row, and one without candidates
C11_Witness ==
    /\ Returned
    /\ Len(new_df) >= 1 /\ Len(updated) = 2
    /\ updated[1].Qty # shopify_df[1].Qty
    /\ result.new_products_csv # <<>>

C11_WitnessNoCandidate ==
    Returned /\ not_in_shop = <<>> /\ Len(result.combined_csv) >= 2

\* C16: whenever run_sync returns a result bundle, the /sync route finds every key
\* it reads from it and answers with a success response, not with HTTP 500.
C16_BundleGivesSuccess ==
    pc = "responded" => KeysRead \subseteq DOMAIN result /\ response = 200

-----------------------------------------------------------------------------
(* PARTIE 1 - parse_physical_stock, from the parts of the dump on.         *)

MaxChunks == 2      \* parts of the physical dump (content.split(store_marker + ";")[1:])

RECURSIVE SplitFrom(_, _, _, _)
\* str.split(sep) for a one-character sep, from position i on, cur being the field
\* read so far
SplitFrom(s, sep, i, cur) ==
    IF i > Len(s) THEN <<cur>>
    ELSE IF Ch(s, i) = sep THEN <<cur>> \o SplitFrom(s, sep, i + 1, "")
    ELSE SplitFrom(s, sep, i + 1, cur \o Ch(s, i))

Split(s, sep) == SplitFrom(s, sep, 1, "")

\* str.strip('"')
StripQuotes(s) ==
    LET keep == {i \in 1..Len(s) : Ch(s, i) # "\""}
    IN  IF keep = {} THEN "" ELSE SubSeq(s, Min(keep), Max(keep))

_ONE_SIZE_VARIANTS ==
    {"one size", "one-size", "onesize", "os", "o/s", "taille unique",
     "unique", "u", "tu", "ns", "no size"}

_normalize_size(size) ==
    IF Strip(Lower(size)) \in _ONE_SIZE_VARIANTS THEN "Taille unique" ELSE size

\* float(text.replace(",", ".")) under `except (ValueError, TypeError)` for a price
\* with at most one decimal and neither infinity nor nan, in tenths; 0.0 on ValueError
PriceOfText(text) ==
    LET t    == Strip(CommaToDotFrom(text, 1))
        f    == FloatOf(t)
        dots == {i \in 1..Len(t) : Ch(t, i) = "."}
        frac == IF dots # {} /\ Min(dots) < Len(t) THEN DigitVal(Ch(t, Min(dots) + 1)) ELSE 0
        abs  == f.whole * 10 + frac
    IN  IF f.kind = "num" THEN (IF f.neg THEN 0 - abs ELSE abs) ELSE 0

\* the fields of a part as the loop body reads them
FieldsOf(part) ==
    LET fields == Split(part, ";")
    IN  [n          |-> Len(fields),
         article    |-> IF Len(fields) >= 10 THEN Strip(fields[1]) ELSE "",
         code_barre |-> IF Len(fields) >= 10 THEN Strip(fields[2]) ELSE "",
         nom        |-> IF Len(fields) >= 10 THEN Strip(StripQuotes(Strip(fields[3]))) ELSE "",
         taille     |-> IF Len(fields) >= 10
                        THEN _normalize_size(Strip(StripQuotes(Strip(fields[4])))) ELSE "",
         qte_raw    |-> IF Len(fields) >= 10 THEN Strip(fields[5]) ELSE "",
         pa_raw     |-> IF Len(fields) >= 10 THEN Strip(fields[8]) ELSE "",
         pv_raw     |-> IF Len(fields) >= 10 THEN Strip(fields[10]) ELSE ""]

\* the two `continue` tests of the loop body
Skipped(f) ==
    \/ f.n < 10
    \/ f.code_barre = "" \/ Upper(f.code_barre) = "TOTAL" \/ f.article = "" \/ f.nom = ""
    \/ Contains(SubSeq(f.article, 1, Min({3, Len(f.article)})), ";")

\* one iteration of the loop over the parts: the part is skipped, or the
\* OverflowError of int() leaves the function, or its record is appended
ParseChunk ==
    /\ pc = "parse"
    /\ idx <= Len(chunks)
    /\ LET f == FieldsOf(chunks[idx])
           q == IntOfFloatText(f.qte_raw)
       IN  IF Skipped(f)
           THEN /\ idx' = idx + 1
                /\ UNCHANGED <<physical_df, pc>>
           ELSE IF q.raises
           THEN /\ pc' = "aborted"
                /\ UNCHANGED <<physical_df, idx>>
           ELSE /\ physical_df' = Append(physical_df,
                      [Article |-> f.article, Code_barre |-> f.code_barre,
                       Nom_catalogue |-> f.nom, Taille |-> f.taille, Qte |-> q.value,
                       Prix_achat |-> PriceOfText(f.pa_raw),
                       Prix_vente |-> PriceOfText(f.pv_raw)])
                /\ idx' = idx + 1
                /\ pc' = pc
    /\ UNCHANGED <<shopify_df, carry_over_map, updated, matched, qty_changes, set_to_zero,
                   carry_over_upd, not_in_shop, run, first_in, table_in, mask, table_out,
                   new_df>>
    /\ UNCHANGED other_vars

\* after the loop: ValueError when no record was found, else the records
ParseEnd ==
    /\ pc = "parse"
    /\ idx > Len(chunks)
    /\ pc' = IF physical_df = <<>> THEN "no_records" ELSE "parsed"
    /\ UNCHANGED <<physical_df, shopify_df, carry_over_map, updated, matched, qty_changes,
                   set_to_zero, carry_over_upd, not_in_shop, idx, run, first_in, table_in,
                   mask, table_out, new_df>>
    /\ UNCHANGED other_vars

\* a part of the dump: Article;Code_barre;Nom;Taille;Qte;..;..;Prix_achat;..;Prix_vente
PartOf(code_barre, qte, pa) ==
    "ART6; " \o code_barre \o ";\"VESTE I029\";One Size;" \o qte \o ";0;0;" \o pa \o ";0;30.0\n"

ChunkQtys   == {"3", " 2,7", "-2", "x", "", "inf", "nan"}
ChunkPrices == {"12,5", "n/a"}
ChunkParts ==
    {PartOf("6-1", q, pa) : q \in ChunkQtys, pa \in ChunkPrices}
        \cup {PartOf("TOTAL", "3", "12,5"), "ART6;6-1;VESTE\n"}

InitParse ==
    /\ chunks \in Tables(ChunkParts, MaxChunks)
    /\ physical_df = <<>> /\ shopify_df = <<>> /\ first_in = <<>> /\ table_in = <<>>
    /\ carry_over_map = <<>> /\ updated = <<>> /\ matched = <<>> /\ qty_changes = <<>>
    /\ set_to_zero = <<>> /\ carry_over_upd = <<>> /\ not_in_shop = <<>>
    /\ idx = 1 /\ run = 1 /\ mask = <<>> /\ table_out = <<>> /\ new_df = <<>>
    /\ brands = <<>> /\ name_in = "" /\ extracted = <<>>
    /\ shopify_csv = <<>> /\ new_products_csv = <<>> /\ combined_csv = <<>>
    /\ result = <<>> /\ response = 0
    /\ pc = "parse"

NextParse == ParseChunk \/ ParseEnd

SpecParse == InitParse /\ [][NextParse]_vars

\* the text of a field is a decimal number
IsNumberText(text) == FloatOf(CommaToDotFrom(text, 1)).kind = "num"

\* the parts among the first n that the loop does not skip
KeptParts(n) == {i \in 1..Min({n, Len(chunks)}) : ~Skipped(FieldsOf(chunks[i]))}

\* C12: a quantity or price field that cannot be parsed as a number never aborts
\* parse_physical_stock: the record of its part is produced with quantity 0
\* (price 0.0) and the remaining parts are processed.
C12_MalformedFieldNeverAborts ==
    /\ pc # "aborted"
    /\ pc = "parse" =>
          /\ Len(physical_df) = Cardinality(KeptParts(idx - 1))
          /\ \A i \in KeptParts(idx - 1) :
                LET f == FieldsOf(chunks[i])
                    r == physical_df[Cardinality(KeptParts(i))]
                IN  /\ ~IsNumberText(f.qte_raw) => r.Qte = 0
                    /\ ~IsNumberText(f.pa_raw) => r.Prix_achat = 0

\* C13: every record produced by parse_physical_stock has a quantity that is a
\* non-negative integer, whatever the quantity field holds.
C13_QuantityNonNegative ==
    \A i \in 1..Len(physical_df) : physical_df[i].Qte \in Nat

-----------------------------------------------------------------------------
(* PARTIE 2 - build_vendor_list and extract_vendor_and_name on their own.  *)

MaxVendorRows == 2  \* rows of the platform export handed to build_vendor_list

BuildVendorList ==
    /\ pc = "vendors"
    /\ brands' = build_vendor_list(shopify_df)
    /\ pc' = "built"
    /\ UNCHANGED <<physical_df, shopify_df, carry_over_map, updated, matched, qty_changes,
                   set_to_zero, carry_over_upd, not_in_shop, idx, run, first_in, table_in,
                   mask, table_out, new_df, chunks, name_in, extracted,
                   shopify_csv, new_products_csv, combined_csv, result, response>>

ExtractVendor ==
    /\ pc = "built"
    /\ LET r == extract_vendor_and_name(name_in, brands)
       IN  extracted' = <<r.vendor, r.product_title>>
    /\ pc' = "extracted"
    /\ UNCHANGED <<physical_df, shopify_df, carry_over_map, updated, matched, qty_changes,
                   set_to_zero, carry_over_upd, not_in_shop, idx, run, first_in, table_in,
                   mask, table_out, new_df, chunks, brands, name_in,
                   shopify_csv, new_products_csv, combined_csv, result, response>>

VendorValues ==
    {"VANS", "Vans", " Vans Vault ", "", "À corriger", "à corriger", "a corriger",
     "A Corriger", "Àlpha"}
VendorRows   == {PlatformRowOf("Old Skool", v, "9-2", "1") : v \in VendorValues}
VendorTitles ==
    {"VANS VAULT TEE", "vans tee", "VANS", "VANSX TEE", "CARHARTT WIP  PANT",
     "GX1000 cap one", "GX1000"}

InitVendors ==
    /\ shopify_df \in Tables(VendorRows, MaxVendorRows)
    /\ name_in \in VendorTitles
    /\ physical_df = <<>> /\ first_in = <<>> /\ table_in = <<>>
    /\ carry_over_map = <<>> /\ updated = <<>> /\ matched = <<>> /\ qty_changes = <<>>
    /\ set_to_zero = <<>> /\ carry_over_upd = <<>> /\ not_in_shop = <<>>
    /\ idx = 1 /\ run = 1 /\ mask = <<>> /\ table_out = <<>> /\ new_df = <<>>
    /\ chunks = <<>> /\ brands = <<>> /\ extracted = <<>>
    /\ shopify_csv = <<>> /\ new_products_csv = <<>> /\ combined_csv = <<>>
    /\ result = <<>> /\ response = 0
    /\ pc = "vendors"

NextVendors == BuildVendorList \/ ExtractVendor

SpecVendors == InitVendors /\ [][NextVendors]_vars

Built == pc \in {"built", "extracted"}

\* the vendor cells of the export, stripped, in row order
PlatformVendors == [i \in 1..Len(shopify_df) |-> Strip(shopify_df[i].Vendor)]

\* the rows whose vendor the function inserts
InsertedRows == {i \in 1..Len(shopify_df) : VendorAccepted(PlatformVendors[i])}

\* the value the brand map holds for a key ("" when the key is absent)
BrandOf(key) ==
    LET at == {i \in 1..Len(brands) : brands[i].key = key}
    IN  IF at = {} THEN "" ELSE brands[CHOOSE i \in at : TRUE].value

KeysByLength ==
    /\ \A i, j \in 1..Len(brands) : i < j => Len(brands[i].key) >= Len(brands[j].key)
    /\ \A i, j \in 1..Len(brands) : i # j => brands[i].key # brands[j].key

\* C14 as stated: the brand map maps, for every non-excluded vendor value v of the
\* platform export, the key upper(v) to v itself, even when the static list holds
\* the key with another casing; its keys come in non-increasing order of length.
C14_EveryPlatformCasingKept ==
    Built =>
        /\ \A i \in InsertedRows : BrandOf(Upper(PlatformVendors[i])) = PlatformVendors[i]
        /\ KeysByLength

\* C14 for a map that holds one value per key: the key upper(v) of every
\* non-excluded platform vendor v is mapped to a platform casing of that key, never
\* to the static list's, namely to the casing whose first row comes last; the keys
\* come in non-increasing order of length.
C14_PlatformCasingWins ==
    Built =>
        /\ \A i \in InsertedRows :
              LET same  == {j \in InsertedRows :
                               Upper(PlatformVendors[j]) = Upper(PlatformVendors[i])}
                  first(j) == \A k \in same : PlatformVendors[k] = PlatformVendors[j] => j <= k
                  last  == CHOOSE j \in same :
                               first(j) /\ \A k \in same : first(k) => k <= j
              IN  BrandOf(Upper(PlatformVendors[i])) = PlatformVendors[last]
        /\ KeysByLength

\* the export gives "VANS" a casing other than the static list's "Vans", and holds
\* a brand longer than it
C14_Witness ==
    /\ Built
    /\ Len(shopify_df) = 2
    /\ PlatformVendors[1] = "Vans Vault" /\ PlatformVendors[2] = "VANS"
    /\ BrandOf("VANS") = "VANS" /\ BrandOf("VANS VAULT") = "Vans Vault"

\* the "needs correction" placeholder in any letter casing
IsPlaceholder(v) == Lower(v) \in {"à corriger", "a corriger"}

\* C19: a vendor value of the platform export is left out of the brand map if and
\* only if it is blank or the placeholder "À corriger" / "a corriger" in any casing;
\* every other platform vendor value is inserted.
C19_OnlyBlankAndPlaceholderLeftOut ==
    Built =>
        \A i \in 1..Len(shopify_df) :
            LET v == PlatformVendors[i]
            IN  (\A j \in 1..Len(brands) : brands[j].key # Upper(v))
                    <=> (v = "" \/ IsPlaceholder(v))

Extracted == pc = "extracted"

\* the keys of the brand map that are the uppercased title or a prefix of it
\* followed by a space
MatchingKeys ==
    {i \in 1..Len(brands) :
        \/ Upper(name_in) = brands[i].key
        \/ StartsWith(Upper(name_in), brands[i].key \o " ")}

\* C20: extract_vendor_and_name returns the canonical value of the longest matching
\* brand key with the remainder (trimmed, in title case) as product title; without a
\* matching key the first space-delimited token is the vendor and the rest the
\* product title (both in title case), a one-token title giving an empty product
\* title.
C20_LongestBrandWins ==
    Extracted =>
        LET t      == Upper(name_in)
            spaces == {i \in 1..Len(t) : Ch(t, i) = " "}
        IN  IF MatchingKeys # {}
            THEN LET best == CHOOSE i \in MatchingKeys :
                                \A j \in MatchingKeys : Len(brands[j].key) <= Len(brands[i].key)
                 IN  /\ \A j \in MatchingKeys \ {best} :
                            Len(brands[j].key) < Len(brands[best].key)
                     /\ extracted[1] = brands[best].value
                     /\ extracted[2] =
                            TitleCase(Strip(SubSeq(t, Len(brands[best].key) + 1, Len(t))))
            ELSE IF spaces # {}
            THEN /\ extracted[1] = TitleCase(SubSeq(t, 1, Min(spaces) - 1))
                 /\ extracted[2] = TitleCase(SubSeq(t, Min(spaces) + 1, Len(t)))
            ELSE extracted = <<TitleCase(t), "">>

\* a title that starts with a two-word brand of the export and with its one-word
\* prefix: the two-word brand is returned
C20_Witness ==
    /\ Extracted
    /\ name_in = "VANS VAULT TEE"
    /\ Cardinality(MatchingKeys) = 2
    /\ extracted = <<"Vans Vault", "Tee">>

C20_WitnessFallback ==
    /\ Extracted /\ MatchingKeys = {}
    /\ name_in = "GX1000 cap one" /\ extracted = <<"Gx1000", "Cap One">>

-----------------------------------------------------------------------------
(* PARTIE 2 - extract_sku_and_title on its own.                            *)

\* Python's None as the second member of the pair returned; a SKU is <<sku>>
None == <<>>

ExtractSku ==
    /\ pc = "sku"
    /\ LET r == extract_sku_and_title(name_in)
       IN  extracted' = <<r.title, IF r.has_sku THEN <<r.sku>> ELSE None>>
    /\ pc' = "sku_done"
    /\ UNCHANGED <<physical_df, shopify_df, carry_over_map, updated, matched, qty_changes,
                   set_to_zero, carry_over_upd, not_in_shop, idx, run, first_in, table_in,
                   mask, table_out, new_df, chunks, brands, name_in,
                   shopify_csv, new_products_csv, combined_csv, result, response>>

SkuHeads  == {"DECK", "GX1000 FALL 8.125 PLANCHE", " Tee I029"}
SkuGaps   == {" ", "  ", "\t "}
SkuTokens ==
    {"I029375.931.XX", "864349-007", "SKATE", "XXXL", "TAILLE", "A12", "1234", "8.125",
     "-123A", ".5XL", "i029", "I029x", "A-1.", "12/34"}
SkuTails  == {"", " "}
SkuNames ==
    {h \o g \o t \o e : h \in SkuHeads, g \in SkuGaps, t \in SkuTokens, e \in SkuTails}
        \cup SkuTokens \cup {"", "  "}

InitSku ==
    /\ name_in \in SkuNames
    /\ physical_df = <<>> /\ shopify_df = <<>> /\ first_in = <<>> /\ table_in = <<>>
    /\ carry_over_map = <<>> /\ updated = <<>> /\ matched = <<>> /\ qty_changes = <<>>
    /\ set_to_zero = <<>> /\ carry_over_upd = <<>> /\ not_in_shop = <<>>
    /\ idx = 1 /\ run = 1 /\ mask = <<>> /\ table_out = <<>> /\ new_df = <<>>
    /\ chunks = <<>> /\ brands = <<>> /\ extracted = <<>>
    /\ shopify_csv = <<>> /\ new_products_csv = <<>> /\ combined_csv = <<>>
    /\ result = <<>> /\ response = 0
    /\ pc = "sku"

NextSku == ExtractSku

SpecSku == InitSku /\ [][NextSku]_vars

SkuDone == pc = "sku_done"

\* the trimmed name, the position where its last whitespace-delimited token starts
\* (0 when no whitespace precedes it) and the token
Trimmed == Strip(name_in)

LastTokenStart ==
    LET ws == {i \in 1..Len(Trimmed) : IsSpace(Ch(Trimmed, i))}
    IN  IF ws = {} THEN 0 ELSE Max(ws) + 1

LastToken == IF LastTokenStart = 0 THEN "" ELSE SubSeq(Trimmed, LastTokenStart, Len(Trimmed))

\* the token is one the specification describes as a SKU
LooksLikeSku(token) ==
    /\ Len(token) >= 4
    /\ \A i \in 1..Len(token) : Ch(token, i) \in UpperLetters \cup Digits \cup {".", "-"}
    /\ \E i \in 1..Len(token) : Ch(token, i) \in Digits
    /\ token \notin {"S", "M", "L", "XL", "XXL", "XXXL", "SIZE", "TAILLE", "XS"}

SkuPairFor(accepted) ==
    IF accepted
    THEN <<Strip(SubSeq(Trimmed, 1, LastTokenStart - 1)), <<LastToken>>>>
    ELSE <<Trimmed, None>>

\* C15 as stated: extract_sku_and_title returns (text before the token trimmed,
\* token) exactly when the trimmed name ends with a whitespace-preceded token of at
\* least 4 characters made only of uppercase letters, digits, dots and hyphens that
\* contains a digit and is not a size token; otherwise (trimmed name, None).
C15_TrailingTokenIsSku ==
    SkuDone => extracted = SkuPairFor(LastTokenStart > 0 /\ LooksLikeSku(LastToken))

\* C15 with the first character of the token as the pattern wants it: the same
\* statement for a token that, besides, starts with an uppercase letter or a digit.
C15_TrailingTokenStartingAlnumIsSku ==
    SkuDone =>
        extracted = SkuPairFor(/\ LastTokenStart > 0
                               /\ LooksLikeSku(LastToken)
                               /\ Ch(LastToken, 1) \in UpperLetters \cup Digits)

\* the two names of the claim: one ending in "I029375.931.XX", one ending in the
\* digit-free "SKATE" after a digit-bearing token
C15_Witness ==
    /\ SkuDone
    /\ name_in = "DECK  I029375.931.XX "
    /\ extracted = <<"DECK", <<"I029375.931.XX">>>>

C15_WitnessNoSku ==
    /\ SkuDone
    /\ name_in = "GX1000 FALL 8.125 PLANCHE SKATE"
    /\ extracted = <<"GX1000 FALL 8.125 PLANCHE SKATE", None>>

-----------------------------------------------------------------------------
(* sync_stocks: the titles reported in the log entries.                    *)

MaxBlank == 20      \* blank-title variant rows that follow a title row

\* one call of sync_stocks, as run_sync makes it
NextOnce == DetectCarryOver \/ SyncStart \/ SyncRow \/ CollectNotInShop

\* a product of the export: its title row, then k variant rows with a blank title,
\* every variant under a barcode of its own; the physical stock holds none of them
\* but, when last_bc is "7-1", the last, whose quantity differs from the record's
LongTable(k, qty, last_bc) ==
    <<PlatformRow(" Veste ", "6-1", "3")>>
        \o [i \in 1..k |-> IF i = k THEN PlatformRow("", last_bc, "5")
                                     ELSE PlatformRow("", "9-" \o IntStr(i), qty)]

InitLong ==
    /\ physical_df = <<PhysRecord("6-1", "VESTE I029", 3), PhysRecord("7-1", "TEE I030", 3)>>
    /\ \E k \in 0..MaxBlank, qty \in {"0", "3 "}, last_bc \in {"7-1", "9-0"} :
          shopify_df = LongTable(k, qty, last_bc)
    /\ first_in = shopify_df
    /\ table_in = <<>>
    /\ pc = "detect"
    /\ Idle

SpecLong == InitLong /\ [][NextOnce]_vars

\* the entries of the two lists that report a title
TitledEntries ==
    {qty_changes[i] : i \in 1..Len(qty_changes)} \cup
    {[Code_barre |-> set_to_zero[i].Code_barre, Titre |-> set_to_zero[i].Titre,
      Ancienne_Qte |-> set_to_zero[i].Ancienne_Qte, Nouvelle_Qte |-> "0"]
        : i \in 1..Len(set_to_zero)}

\* the row an entry was logged on, in a table whose rows carry distinct barcodes
RowOfEntry(e) == CHOOSE i \in 1..Len(shopify_df) : Strip(shopify_df[i].Barcode) = e.Code_barre

\* the nearest row at or before row i with a non-empty title (0 when there is none)
TitleRowOf(i) ==
    LET titled == {j \in 1..i : Strip(shopify_df[j].Title) # ""}
    IN  IF titled = {} THEN 0 ELSE Max(titled)

\* C17: an entry logged on a row whose own title cell is blank reports the title of
\* the nearest preceding row with a non-empty title, however many blank-title rows
\* lie between them.
C17_NearestPrecedingTitle ==
    Done =>
        \A e \in TitledEntries :
            LET i == RowOfEntry(e)
            IN  Strip(shopify_df[i].Title) = "" /\ TitleRowOf(i) # 0
                    => e.Titre = Strip(shopify_df[TitleRowOf(i)].Title)

-----------------------------------------------------------------------------
(* sync_stocks: a title row renamed during the run.                        *)

RenamedBarcodes == {"6-1", "7-1", "9-1"}
RenamedRows ==
    {PlatformRow(t, bc, q) : t \in {"", " Veste "}, bc \in RenamedBarcodes, q \in {"0", "3"}}

InitRenamed ==
    /\ physical_df \in Tables(TitledRecords, MaxPhys)
    /\ shopify_df \in Tables(RenamedRows, MaxRows)
    /\ \A i, j \in 1..Len(shopify_df) : i # j => shopify_df[i].Barcode # shopify_df[j].Barcode
    /\ first_in = shopify_df
    /\ table_in = <<>>
    /\ pc = "detect"
    /\ Idle

SpecRenamed == InitRenamed /\ [][NextOnce]_vars

\* C18: within one run, the entries logged for rows of the same product (a title
\* row and the blank-title rows that follow it) report the same title, also when
\* the title row gets a season suffix during the run.
C18_OneTitlePerProduct ==
    Done =>
        \A e1, e2 \in TitledEntries :
            /\ TitleRowOf(RowOfEntry(e1)) # 0
            /\ TitleRowOf(RowOfEntry(e1)) = TitleRowOf(RowOfEntry(e2))
            => e1.Titre = e2.Titre

-----------------------------------------------------------------------------
(* sync_stocks: what the run leaves alone.                                 *)

\* the cells of a row other than the quantity cell and the title cell
OtherCells(row) ==
    <<row.Vendor, row.Status, row.Published, row.Opt1Name, row.Opt1Val, row.SKU,
      row.Barcode, row.Cost, row.Price, row.InvTrack, row.InvPol, row.Fulfill>>

\* C21: sync_stocks returns a table with the rows of the input table in the same
\* order; in every row the cells other than the quantity and the title equal the
\* input's; rows with an empty barcode are unchanged; and the table passed in is
\* itself left unmodified.  Stated for the first run, whose input first_in records.
C21_OnlyQuantityAndTitleWritten ==
    run = 1 /\ pc \in {"loop", "done"} =>
        /\ Len(updated) = Len(first_in)
        /\ \A i \in 1..Len(first_in) :
              /\ OtherCells(updated[i]) = OtherCells(first_in[i])
              /\ Strip(first_in[i].Barcode) = "" => updated[i] = first_in[i]
        /\ shopify_df = first_in

\* a run that rewrote the quantity and the title of its first row and met a second
\* row without barcode whose quantity is not zero
C21_Witness ==
    /\ Done /\ run = 1
    /\ Len(first_in) = 2
    /\ updated[1].Qty # first_in[1].Qty
    /\ updated[1].Title # first_in[1].Title
    /\ first_in[2].Barcode = "" /\ first_in[2].Qty = "3 "
    /\ updated[2] = first_in[2]

====
